---- MODULE Spec2Model ----
(***************************************************************************)
(* K-CFDO enhancement (src/periodontitis/src/preprocessing.py).            *)
(*                                                                         *)
(* Number representation.  The program computes in float64.  Here a        *)
(* floating value is an "extended value": a record                         *)
(*     [kind |-> "fin", n |-> a, d |-> b]   the rational a/b, b > 0        *)
(*     [kind |-> "inf", n |-> s, d |-> 0]   s = 1: +inf, s = -1: -inf      *)
(*     [kind |-> "nan", n |-> 0, d |-> 0]   not-a-number                   *)
(* Rational arithmetic is exact.  The two transcendental library calls     *)
(* are rounded: r ** e is rounded down to a multiple of 1/255 and          *)
(* special.gamma is tabulated to two decimals.  The special values         *)
(* (0 ** negative = inf, negative ** fractional = nan, 0 * inf = nan,      *)
(* x / 0, the propagation of nan) follow IEEE-754 as NumPy applies it      *)
(* with its default error state (warn, do not raise).                      *)
(***************************************************************************)
EXTENDS Integers, FiniteSets, Sequences, TLC

VARIABLES entry, fileStatus, fileData, makedirsOk, imwriteEnv, gammaLib,
          rho, k, pc, image, img, i, j, enhanced_img, normalized, result,
          raised, dirMade, written, printed

vars == <<entry, fileStatus, fileData, makedirsOk, imwriteEnv, gammaLib,
          rho, k, pc, image, img, i, j, enhanced_img, normalized, result,
          raised, dirMade, written, printed>>

\* Largest number of samples (height * width) of an input buffer.
MaxPixels == 4

\* The divisor of line 27 (img / 255.0); working samples are held in units of 1/Scale.
Scale == 255

\* The factor of line 40 (enhanced_img * 255).
OutScale == 255

\* Sample values of buffers passed directly to k_cfdo_enhancement.
Samples == {-1, 0, 1, 128, 255}

\* Sample values of buffers decoded by cv2.imread (unsigned 8-bit).
FileSamples == {0, 255}

----------------------------------------------------------------------------
\* Integer helpers.

Abs(x) == IF x < 0 THEN -x ELSE x

Sign(x) == IF x < 0 THEN -1 ELSE IF x = 0 THEN 0 ELSE 1

RECURSIVE GCD(_, _)
GCD(a, b) == IF b = 0 THEN a ELSE GCD(b, a % b)

RECURSIVE IPow(_, _)
IPow(b, p) == IF p = 0 THEN 1 ELSE b * IPow(b, p - 1)

RECURSIVE Fact(_)
Fact(x) == IF x <= 0 THEN 1 ELSE x * Fact(x - 1)

\* y^q <= v, for y >= 1, q >= 0, v >= 0, without forming y^q.
RECURSIVE PowLeq(_, _, _)
PowLeq(y, q, v) == IF q = 0 THEN 1 <= v ELSE PowLeq(y, q - 1, v \div y)

\* The largest y in lo..hi with y^q <= v (lo satisfies it).
RECURSIVE RootSearch(_, _, _, _)
RootSearch(lo, hi, q, v) ==
  IF lo = hi THEN lo
  ELSE LET mid == (lo + hi + 1) \div 2
       IN IF PowLeq(mid, q, v) THEN RootSearch(mid, hi, q, v)
                               ELSE RootSearch(lo, mid - 1, q, v)

\* floor(v^(1/q)) for v >= 0, q >= 1.
IRoot(v, q) == IF q = 1 THEN v ELSE RootSearch(0, v, q, v)

----------------------------------------------------------------------------
\* Extended values.

Fin(a, b) == [kind |-> "fin", n |-> a, d |-> b]
Inf(s)    == [kind |-> "inf", n |-> s, d |-> 0]
NaN       == [kind |-> "nan", n |-> 0, d |-> 0]

IsFin(v) == v.kind = "fin"
IsNaN(v) == v.kind = "nan"

\* The sign of an extended value that is not nan.
ExtSign(v) == Sign(v.n)

\* a <= b for values that are not nan.
ExtLeq(a, b) ==
  IF IsFin(a) /\ IsFin(b)
  THEN IF a.d = b.d THEN a.n <= b.n ELSE a.n * b.d <= b.n * a.d
  ELSE IF a.kind = "inf" THEN a.n = -1 \/ (b.kind = "inf" /\ b.n = 1)
  ELSE b.n = 1

\* a - b
ExtSub(a, b) ==
  IF IsNaN(a) \/ IsNaN(b) THEN NaN
  ELSE IF a.kind = "inf" THEN (IF b.kind = "inf" /\ b.n = a.n THEN NaN ELSE a)
  ELSE IF b.kind = "inf" THEN Inf(-b.n)
  ELSE IF a.d = b.d THEN Fin(a.n - b.n, a.d)
  ELSE Fin(a.n * b.d - b.n * a.d, a.d * b.d)

\* a / b
ExtDiv(a, b) ==
  IF IsNaN(a) \/ IsNaN(b) THEN NaN
  ELSE IF b.kind = "inf" THEN (IF a.kind = "inf" THEN NaN ELSE Fin(0, 1))
  ELSE IF a.kind = "inf" THEN Inf(IF b.n < 0 THEN -a.n ELSE a.n)
  ELSE IF b.n = 0 THEN (IF a.n = 0 THEN NaN ELSE Inf(Sign(a.n)))
  ELSE IF a.d = b.d THEN Fin(a.n * Sign(b.n), Abs(b.n))
  ELSE Fin(a.n * b.d * Sign(b.n), a.d * Abs(b.n))

\* a * b
ExtMul(a, b) ==
  IF IsNaN(a) \/ IsNaN(b) THEN NaN
  ELSE IF a.kind = "inf" \/ b.kind = "inf"
       THEN (IF a.n = 0 \/ b.n = 0 THEN NaN ELSE Inf(ExtSign(a) * ExtSign(b)))
  ELSE Fin(a.n * b.n, a.d * b.d)

----------------------------------------------------------------------------
\* Parameters rho and k are rationals [n |-> numerator, d |-> denominator > 0].

Q(a, b) == [n |-> a, d |-> b]

\* The rational a/b (b # 0) in lowest terms with a positive denominator.
Reduce(a, b) ==
  LET g == GCD(Abs(a), Abs(b))
  IN  Q(Sign(b) * (a \div g), Abs(b) \div g)

\* The (rho, k) pairs a call is made with.
\*   <<1/2, 3/2>>  the defaults: exponent 1/3, Gamma(5/3)
\*   <<1/2, 0>>    k = 0
\*   <<2, 1>>      exponent -1, Gamma(0): pole
\*   <<3/2, 1/2>>  exponent -1, Gamma(-1): pole
\*   <<3, 2>>      exponent -1, Gamma(1/2)
\*   <<5/4, 1/2>>  exponent -1/2, Gamma(-1/2) < 0
\*   <<1, 1>>      exponent 0, Gamma(1)
\*   <<0, 1>>      exponent 1, Gamma(2)
\*   <<0, 2>>      exponent 1/2, Gamma(2)
\*   <<2, -1>>     exponent 1, Gamma(4), k negative
\*   <<-1, -1>>    exponent -2, Gamma(1), k negative
Params ==
  { <<Q(1, 2), Q(3, 2)>>, <<Q(1, 2), Q(0, 1)>>, <<Q(2, 1), Q(1, 1)>>,
    <<Q(3, 2), Q(1, 2)>>, <<Q(3, 1), Q(2, 1)>>, <<Q(5, 4), Q(1, 2)>>,
    <<Q(1, 1), Q(1, 1)>>, <<Q(0, 1), Q(1, 1)>>, <<Q(0, 1), Q(2, 1)>>,
    <<Q(2, 1), Q(-1, 1)>>, <<Q(-1, 1), Q(-1, 1)>> }

\* (1 - rho) / k of line 35, for k # 0.
Exponent(r, kk) == Reduce((r.d - r.n) * kk.d, r.d * kk.n)

\* 2 - rho / k of line 36, for k # 0.
GammaArg(r, kk) == Reduce(2 * r.d * kk.n - r.n * kk.d, r.d * kk.n)

\* floor(Scale * (x/Scale)^(p/q)) for x > 0, q >= 1.
PowPos(x, p, q) ==
  IF p >= 0
  THEN IRoot(IF q >= p THEN IPow(Scale, q - p) * IPow(x, p)
                       ELSE IPow(x, p) \div IPow(Scale, p - q), q)
  ELSE IRoot(IPow(Scale, q - p) \div IPow(x, -p), q)

\* r ** e of line 35: r = x/Scale a float64 scalar, e = p/q in lowest terms.
\*   e = 0                       1.0
\*   r = 0, e > 0                0.0
\*   r = 0, e < 0                inf   (RuntimeWarning: divide by zero)
\*   r < 0, e not an integer     nan   (RuntimeWarning: invalid value)
\*   r < 0, e an integer         (-1)^e * |r|^e
Pow(x, e) ==
  IF e.n = 0 THEN Fin(Scale, Scale)
  ELSE IF x = 0 THEN (IF e.n > 0 THEN Fin(0, Scale) ELSE Inf(1))
  ELSE IF x > 0 THEN Fin(PowPos(x, e.n, e.d), Scale)
  ELSE IF e.d # 1 THEN NaN
  ELSE Fin((IF e.n % 2 = 0 THEN 1 ELSE -1) * PowPos(-x, e.n, 1), Scale)

\* special.gamma of line 36 at the argument a (a rational in lowest terms).
\* At a positive integer it is (a-1)!; at 0 it is +inf; at a negative
\* integer SciPy returns inf or nan depending on its version (lib); the
\* other values are tabulated to two decimals.
Gamma(a, lib) ==
  IF a.d = 1
  THEN IF a.n >= 1 THEN Fin(Fact(a.n - 1), 1)
       ELSE IF a.n = 0 THEN Inf(1)
       ELSE IF lib = "inf" THEN Inf(1) ELSE NaN
  ELSE CASE a = Q(5, 3)  -> Fin(90, 100)
         [] a = Q(1, 2)  -> Fin(177, 100)
         [] a = Q(-1, 2) -> Fin(-354, 100)

\* The value stored by line 37 for the working sample x (in units of
\* 1/Scale): img[i, j] * (numerator / denominator).
Enhanced(x, r, kk, lib) ==
  LET numerator   == Pow(x, Exponent(r, kk))
      denominator == Gamma(GammaArg(r, kk), lib)
  IN  ExtMul(Fin(x, Scale), ExtDiv(numerator, denominator))

----------------------------------------------------------------------------
\* Buffers: [n |-> height, m |-> width, px |-> samples by position <<i, j>>].

Pos(n, m) == (0 .. n - 1) \X (0 .. m - 1)

Buf(n, m, f) == [n |-> n, m |-> m, px |-> f]

\* No buffer: the value of a variable not yet assigned.
NoBuf == Buf(0, 0, [p \in {} |-> 0])

Shapes == { s \in (1 .. MaxPixels) \X (1 .. MaxPixels) : s[1] * s[2] <= MaxPixels }

Images(vals) ==
  UNION { { Buf(s[1], s[2], f) : f \in [Pos(s[1], s[2]) -> vals] } : s \in Shapes }

\* img.max() of line 26 and .min()/.max() of line 39 on integer samples.
MaxOf(b) == CHOOSE v \in { b.px[p] : p \in DOMAIN b.px } :
              \A q \in DOMAIN b.px : b.px[q] <= v

\* enhanced_img.min() / .max() of line 39: nan if any sample is nan.
HasNaN(b) == \E p \in DOMAIN b.px : IsNaN(b.px[p])

ExtMin(b) ==
  IF HasNaN(b) THEN NaN
  ELSE CHOOSE v \in { b.px[p] : p \in DOMAIN b.px } :
         \A q \in DOMAIN b.px : ExtLeq(v, b.px[q])

ExtMax(b) ==
  IF HasNaN(b) THEN NaN
  ELSE CHOOSE v \in { b.px[p] : p \in DOMAIN b.px } :
         \A q \in DOMAIN b.px : ExtLeq(b.px[q], v)

\* Line 39 with the numerator taken from the maximum: (max - enhanced_img) / (max - min).
MinMaxInverted(b) ==
  LET mn == ExtMin(b)
      mx == ExtMax(b)
  IN  Buf(b.n, b.m, [p \in DOMAIN b.px |->
                       ExtDiv(ExtSub(mx, b.px[p]), ExtSub(mx, mn))])

\* Line 39: (enhanced_img - min) / (max - min), element by element.
MinMax(b) ==
  LET mn == ExtMin(b)
      mx == ExtMax(b)
  IN  Buf(b.n, b.m, [p \in DOMAIN b.px |->
                       ExtDiv(ExtSub(b.px[p], mn), ExtSub(mx, mn))])

\* <<q, r>> with n * c = q * d + r and 0 <= r < d, for n >= 0, c >= 0,
\* d > 0, formed bit by bit of c so that no intermediate exceeds 3 * d + n.
RECURSIVE MulDivMod(_, _, _)
MulDivMod(n, c, d) ==
  IF c = 0 THEN <<0, 0>>
  ELSE LET h  == MulDivMod(n, c \div 2, d)
           r2 == 2 * h[2] + (c % 2) * (n % d)
       IN  <<2 * h[1] + (c % 2) * (n \div d) + (r2 \div d), r2 % d>>

\* Truncation toward zero of c * v for a finite value v and an integer c >= 0.
TruncScaled(v, c) == Sign(v.n) * MulDivMod(Abs(v.n), c, v.d)[1]

\* The conversion float64 -> uint8 of line 40 is defined by C only for a
\* finite value whose truncation lies in 0..255.
CastDefined(v) == IsFin(v) /\ TruncScaled(v, OutScale) \in 0 .. 255

\* What the conversion of an undefined value (nan, inf, out of range) can
\* deliver: the C standard leaves it open; compiled conversions deliver the
\* low byte of the "integer indefinite" value (0) or a saturated value (255).
UndefinedCast == {0, 255}

\* Line 40: (enhanced_img * 255).astype(np.uint8); c is what the build
\* delivers for an undefined conversion.
ToUint8(b, c) ==
  Buf(b.n, b.m, [p \in DOMAIN b.px |->
                   IF CastDefined(b.px[p]) THEN TruncScaled(b.px[p], OutScale)
                                           ELSE c])

----------------------------------------------------------------------------
\* The program.  entry is the function the caller invokes; the other
\* environment variables are fixed at the call: what the input path holds,
\* whether the output directory can be created, what cv2.imwrite does with
\* the output path, and what the installed SciPy returns at a pole.

None == [none |-> TRUE, buf |-> NoBuf]

Some(b) == [none |-> FALSE, buf |-> b]

Init ==
  /\ entry \in {"k_cfdo_enhancement", "enhance_image", "enhance_image_from_user"}
  /\ \E prm \in Params : rho = prm[1] /\ k = prm[2]
  /\ gammaLib \in {"inf", "nan"}
  /\ IF entry = "k_cfdo_enhancement"
     THEN /\ image \in { Some(b) : b \in Images(Samples) }
          /\ fileStatus = "unused" /\ fileData = NoBuf
          /\ makedirsOk = TRUE /\ imwriteEnv = "unused"
          /\ pc = "astype"
     ELSE /\ image = None
          /\ \/ fileStatus = "ok" /\ fileData \in Images(FileSamples)
             \/ fileStatus \in {"missing", "undecodable"} /\ fileData = NoBuf
          /\ imwriteEnv \in {"ok", "false", "raises"}
          /\ IF entry = "enhance_image"
             THEN makedirsOk = TRUE /\ pc = "imread"
             ELSE makedirsOk \in BOOLEAN /\ pc = "makedirs"
  /\ img = NoBuf /\ i = 0 /\ j = 0
  /\ enhanced_img = NoBuf /\ normalized = NoBuf /\ result = NoBuf
  /\ raised = "none"
  /\ dirMade = FALSE /\ written = FALSE /\ printed = FALSE

\* Line 83: os.makedirs(output_dir, exist_ok=True); lines 86-87 compute the
\* output path and line 90 calls enhance_image.
makedirs ==
  /\ pc = "makedirs"
  /\ IF makedirsOk
     THEN dirMade' = TRUE /\ pc' = "imread" /\ raised' = raised
     ELSE dirMade' = dirMade /\ pc' = "done" /\ raised' = "OSError"
  /\ UNCHANGED <<entry, fileStatus, fileData, makedirsOk, imwriteEnv, gammaLib,
                 rho, k, image, img, i, j, enhanced_img, normalized, result,
                 written, printed>>

\* Line 58: cv2.imread returns the decoded buffer, or None when the path is
\* missing or the content cannot be decoded; it raises nothing.
imread ==
  /\ pc = "imread"
  /\ image' = IF fileStatus = "ok" THEN Some(fileData) ELSE None
  /\ pc' = "astype"
  /\ UNCHANGED <<entry, fileStatus, fileData, makedirsOk, imwriteEnv, gammaLib,
                 rho, k, img, i, j, enhanced_img, normalized, result,
                 raised, dirMade, written, printed>>

\* Line 25: img = image.astype(np.float64); None has no attribute astype.
astype ==
  /\ pc = "astype"
  /\ IF image.none
     THEN img' = img /\ pc' = "done" /\ raised' = "AttributeError"
     ELSE /\ img' = Buf(image.buf.n, image.buf.m,
                        [p \in DOMAIN image.buf.px |-> Scale * image.buf.px[p]])
          /\ pc' = "rescale" /\ raised' = raised
  /\ UNCHANGED <<entry, fileStatus, fileData, makedirsOk, imwriteEnv, gammaLib,
                 rho, k, image, i, j, enhanced_img, normalized, result,
                 dirMade, written, printed>>

\* Lines 26-27 with the test img.max() >= 1.0.
RescaledAtOne(b) ==
  IF MaxOf(b) >= Scale
  THEN Buf(b.n, b.m, [p \in DOMAIN b.px |-> b.px[p] \div Scale])
  ELSE b

\* Lines 26-27: if img.max() > 1.0: img = img / 255.0.  Samples are in
\* units of 1/Scale, so 1.0 is Scale units.
Rescaled(b) ==
  IF MaxOf(b) > Scale
  THEN Buf(b.n, b.m, [p \in DOMAIN b.px |-> b.px[p] \div Scale])
  ELSE b

\* Lines 26-30: the rescale, n, m = img.shape and np.zeros_like(img).
rescale ==
  /\ pc = "rescale"
  /\ img' = Rescaled(img)
  /\ enhanced_img' = Buf(img.n, img.m, [p \in DOMAIN img.px |-> Fin(0, 1)])
  /\ i' = 0 /\ j' = 0
  /\ pc' = "loop"
  /\ UNCHANGED <<entry, fileStatus, fileData, makedirsOk, imwriteEnv, gammaLib,
                 rho, k, image, normalized, result,
                 raised, dirMade, written, printed>>

\* The loops of lines 32-33 with the inner loop over range(m - 1).
NextPosShort(a, b, m) == IF b + 1 < m - 1 THEN <<a, b + 1>> ELSE <<a + 1, 0>>

\* The position the loops of lines 32-33 visit after <<a, b>>.
NextPos(a, b, m) == IF b + 1 < m THEN <<a, b + 1>> ELSE <<a + 1, 0>>

\* Lines 32-37, one iteration: (1 - rho) / k is Python float division and
\* raises ZeroDivisionError for k = 0.
loop ==
  /\ pc = "loop"
  /\ IF k.n = 0
     THEN /\ raised' = "ZeroDivisionError" /\ pc' = "done"
          /\ UNCHANGED <<enhanced_img, i, j>>
     ELSE /\ enhanced_img' =
               [enhanced_img EXCEPT !.px[<<i, j>>] =
                   Enhanced(img.px[<<i, j>>], rho, k, gammaLib)]
          /\ i' = NextPos(i, j, img.m)[1]
          /\ j' = NextPos(i, j, img.m)[2]
          /\ pc' = IF NextPos(i, j, img.m)[1] < img.n THEN "loop" ELSE "normalize"
          /\ raised' = raised
  /\ UNCHANGED <<entry, fileStatus, fileData, makedirsOk, imwriteEnv, gammaLib,
                 rho, k, image, img, normalized, result,
                 dirMade, written, printed>>

\* Line 39: min-max normalization (NumPy warns on 0/0 and stores nan).
normalize ==
  /\ pc = "normalize"
  /\ normalized' = MinMax(enhanced_img)
  /\ pc' = "cast"
  /\ UNCHANGED <<entry, fileStatus, fileData, makedirsOk, imwriteEnv, gammaLib,
                 rho, k, image, img, i, j, enhanced_img, result,
                 raised, dirMade, written, printed>>

\* Line 40: scale, convert to uint8 and return (to the caller, or to line 61).
cast ==
  /\ pc = "cast"
  /\ \E c \in UndefinedCast : result' = ToUint8(normalized, c)
  /\ pc' = IF entry = "k_cfdo_enhancement" THEN "done" ELSE "imwrite"
  /\ UNCHANGED <<entry, fileStatus, fileData, makedirsOk, imwriteEnv, gammaLib,
                 rho, k, image, img, i, j, enhanced_img, normalized,
                 raised, dirMade, written, printed>>

\* Line 64: cv2.imwrite writes the file and returns True, or returns False
\* when the file cannot be written (the return value is not looked at), or
\* raises cv2.error when no encoder matches the path's extension.
imwrite ==
  /\ pc = "imwrite"
  /\ written' = (imwriteEnv = "ok")
  /\ IF imwriteEnv = "raises"
     THEN raised' = "cv2.error" /\ pc' = "done"
     ELSE raised' = raised /\ pc' = "print"
  /\ UNCHANGED <<entry, fileStatus, fileData, makedirsOk, imwriteEnv, gammaLib,
                 rho, k, image, img, i, j, enhanced_img, normalized, result,
                 dirMade, printed>>

\* Line 65: print(f"Enhanced image saved to {output_image_path}").
print ==
  /\ pc = "print"
  /\ printed' = TRUE
  /\ pc' = "done"
  /\ UNCHANGED <<entry, fileStatus, fileData, makedirsOk, imwriteEnv, gammaLib,
                 rho, k, image, img, i, j, enhanced_img, normalized, result,
                 raised, dirMade, written>>

Next ==
  \/ makedirs
  \/ imread
  \/ astype
  \/ rescale
  \/ loop
  \/ normalize
  \/ cast
  \/ imwrite
  \/ print

Spec == Init /\ [][Next]_vars

----------------------------------------------------------------------------
\* Vocabulary of the properties.

\* 2 - rho / k is a pole of Gamma: a non-positive integer.
Pole(a) == a.d = 1 /\ a.n <= 0

\* k nonzero and 2 - rho / k not a pole.
ValidParams == k.n # 0 /\ ~Pole(GammaArg(rho, k))

InputPos == DOMAIN image.buf.px

Sample(p) == image.buf.px[p]

NonNegativeInput == ~image.none /\ \A p \in InputPos : Sample(p) >= 0

ConstantInput == ~image.none /\ \A p, q \in InputPos : Sample(p) = Sample(q)

\* The function was entered with a buffer (line 25 succeeded).
Entered == img # NoBuf

\* The loops of lines 32-37 have run to completion.
LoopDone == enhanced_img # NoBuf /\ pc # "loop" /\ raised # "ZeroDivisionError"

\* The working sample (units of 1/Scale) the data model prescribes for the
\* input sample at p: divided by 255 iff the input maximum exceeds 1.
WorkingSample(p) ==
  IF \E q \in InputPos : Sample(q) > 1 THEN Sample(p) ELSE Scale * Sample(p)

----------------------------------------------------------------------------
\* C1: a call with k = 0 ends in an InvalidParameter error and returns no
\* buffer, whatever the input buffer and rho.
C1_KZeroInvalidParameter ==
  k.n = 0 =>
    /\ result = NoBuf
    /\ (Entered /\ pc = "done") => raised = "InvalidParameter"

\* C2: for valid rho, k and a constant input buffer of non-negative samples
\* the min-max step produces no nan, the call raises nothing, and an
\* all-zero input gives an all-zero output.
C2_ConstantFallback ==
  (ValidParams /\ ConstantInput /\ NonNegativeInput) =>
    /\ ~HasNaN(normalized)
    /\ raised \in {"none", "cv2.error"}
    /\ (result # NoBuf /\ \A p \in InputPos : Sample(p) = 0)
         => \A p \in InputPos : result.px[p] = 0

\* C3: for valid rho, k and non-negative input every returned sample is in
\* 0..255 and is the truncation of 255 times a normalized value in [0, 1].
C3_OutputInRange ==
  (ValidParams /\ NonNegativeInput /\ result # NoBuf) =>
    \A p \in InputPos :
      /\ result.px[p] \in 0 .. 255
      /\ IsFin(normalized.px[p])
      /\ 0 <= normalized.px[p].n /\ normalized.px[p].n <= normalized.px[p].d
      /\ result.px[p] = TruncScaled(normalized.px[p], OutScale)

\* C4: a returned buffer has the height and width of the input, every
\* position holds the enhanced value of the input sample at that position,
\* and equal input samples give equal output samples.
C4_ShapePreserved ==
  result # NoBuf =>
    /\ result.n = image.buf.n /\ result.m = image.buf.m
    /\ DOMAIN result.px = Pos(image.buf.n, image.buf.m)
    /\ DOMAIN enhanced_img.px = Pos(image.buf.n, image.buf.m)
    /\ \A p \in InputPos :
         enhanced_img.px[p] = Enhanced(WorkingSample(p), rho, k, gammaLib)
    /\ \A p, q \in InputPos :
         Sample(p) = Sample(q) => result.px[p] = result.px[q]

\* A 2 x 2 buffer was returned whose off-diagonal samples differ.
C4_Witness ==
  /\ pc = "done" /\ result # NoBuf
  /\ result.n = 2 /\ result.m = 2
  /\ result.px[<<0, 1>>] # result.px[<<1, 0>>]

\* C5: when 2 - rho / k is a pole the call returns no buffer and ends in an
\* InvalidParameter error.
C5_PoleRejected ==
  (k.n # 0 /\ Pole(GammaArg(rho, k))) =>
    /\ result = NoBuf
    /\ (Entered /\ pc = "done") => raised = "InvalidParameter"

\* C6: with a negative input sample and a fractional exponent no nan is
\* stored in the enhanced buffer or flows into the normalized one.
C6_NegativeRejected ==
  (k.n # 0 /\ Exponent(rho, k).d # 1 /\ ~image.none
     /\ \E p \in InputPos : Sample(p) < 0) =>
    ~HasNaN(enhanced_img) /\ ~HasNaN(normalized)

\* C7: a failed read ends in FileNotFound or DecodeError, and when the read
\* or the enhancement fails nothing is written and no message is printed.
C7_ReadFailure ==
  /\ (fileStatus \in {"missing", "undecodable"} /\ pc = "done" /\ raised # "OSError")
       => raised \in {"FileNotFound", "DecodeError"}
  /\ (fileStatus \in {"missing", "undecodable"} \/ raised \notin {"none", "cv2.error"})
       => ~written /\ ~printed

\* C8: the message is printed only when the file was written, and a write
\* that does not succeed ends the operation in an error.
C8_MessageOnlyAfterWrite ==
  /\ printed => written
  /\ (pc = "done" /\ result # NoBuf /\ imwriteEnv \in {"false", "raises"})
       => raised # "none"

\* C9: once lines 26-27 have run, the working buffer is the input divided by
\* 255 if the input maximum exceeds 1.0 and the input itself otherwise, for
\* all samples alike.
C9_RescaleIffAboveOne ==
  (Entered /\ pc # "rescale") =>
    /\ DOMAIN img.px = InputPos
    /\ \A p \in InputPos : img.px[p] = WorkingSample(p)

\* The input maximum is exactly 1 and the samples were left as they are.
C9_Witness ==
  /\ Entered /\ pc = "loop"
  /\ \E p \in InputPos : Sample(p) = 1
  /\ \A p \in InputPos : Sample(p) <= 1 /\ img.px[p] = Scale * Sample(p)

\* C10 as stated: for valid rho, k and non-negative samples a < b of one
\* buffer, the enhanced value of b is not below that of a, and the output
\* sample of b is not below that of a.
C10_OrderNotInverted ==
  (ValidParams /\ ~image.none) =>
    \A p, q \in InputPos :
      (0 <= Sample(p) /\ Sample(p) < Sample(q)) =>
        /\ (LoopDone /\ ~IsNaN(enhanced_img.px[p]) /\ ~IsNaN(enhanced_img.px[q]))
             => ExtLeq(enhanced_img.px[p], enhanced_img.px[q])
        /\ result # NoBuf => result.px[p] <= result.px[q]

\* Gamma(2 - rho / k) is finite and positive and (1 - rho) / k is not negative.
IncreasingParams ==
  /\ ValidParams
  /\ Gamma(GammaArg(rho, k), gammaLib).n > 0
  /\ Exponent(rho, k).n >= 0

\* C10 amended: for k nonzero, Gamma(2 - rho / k) positive and (1 - rho) / k
\* not negative, and samples a < b of a buffer of non-negative samples, both
\* enhanced values are finite, that of a is at most that of b, and the
\* output sample of a is at most that of b.
C10_OrderPreserved ==
  (IncreasingParams /\ NonNegativeInput) =>
    \A p, q \in InputPos :
      Sample(p) < Sample(q) =>
        /\ LoopDone => /\ IsFin(enhanced_img.px[p]) /\ IsFin(enhanced_img.px[q])
                       /\ ExtLeq(enhanced_img.px[p], enhanced_img.px[q])
        /\ result # NoBuf => result.px[p] <= result.px[q]

\* A buffer with samples a < b was enhanced under such parameters and the
\* output sample of a is below that of b.
C10_Witness ==
  /\ pc = "done" /\ result # NoBuf
  /\ IncreasingParams /\ NonNegativeInput
  /\ \E p, q \in InputPos : Sample(p) < Sample(q) /\ result.px[p] < result.px[q]

====
